---- MODULE Spec2Model ----
(***************************************************************************)
(* Marketplace (src/skel/tmp/marketplace.py): producers publish units into *)
(* per-product heaps, consumers reserve them into carts and check out.     *)
(* Every thread is a client of one shared Marketplace object.              *)
(*                                                                         *)
(* A step of the model is one access to state that another thread may      *)
(* access at the same time (CPython runs each of them atomically under the *)
(* interpreter lock; heapq.heappush and heapq.heappop are single C calls). *)
(* Statements that touch only what the running thread owns (its locals,    *)
(* its own cart, a counter whose lock it holds) are taken with the shared  *)
(* access next to them; entering a lock is taken with the step that        *)
(* follows it and leaving a lock with the step before it.  These merges    *)
(* lose no behaviour: the merged statements commute with every step of the *)
(* other threads.                                                          *)
(*                                                                         *)
(* Producer identities "prod<k>" are modelled by the number k; the string  *)
(* order and the numeric order agree for k < 10.                           *)
(***************************************************************************)
EXTENDS Integers, Sequences, FiniteSets, TLC

\* ------------------------------------------------------------------ bounds
NumProducers == 2
NumConsumers == 2
MaxCarts == 2
QSize == 1
MaxInside == 2
MaxPublishes == 3

Products == {"coffee", "tea"}

ProducerThreads == 1..NumProducers
ConsumerThreads == (NumProducers + 1)..(NumProducers + NumConsumers)
Threads == ProducerThreads \cup ConsumerThreads

NoThread == 0
\* The RLock objects made for one product are numbered in the order line 88
\* makes them; a consumer makes at most one while the product has none, so
\* there are never more than consumers.  NoLock: the product has no lock yet.
NoLock == 0
LockObjects == 1..NumConsumers
\* A cart identity new_cart never returns (the tests use -1 for it); a thread
\* that holds no identity yet holds this one.
UnknownCart == -1
NoId == UnknownCart

VARIABLES
    p_id,        \* Marketplace.p_id: next producer number
    c_id,        \* Marketplace.c_id: next cart number
    prod_q,      \* Marketplace.prod_q: producer id -> occupancy
    carts,       \* Marketplace.carts: cart id -> list of [product, producer_id]
    prod_queue,  \* Marketplace.prod_queue: product -> heap of <<occupancy, producer id>>
    prod_locks,  \* Marketplace.prod_locks: product -> number of the lock object installed
    p_id_lock,   \* holder of Marketplace.p_id_lock
    c_id_lock,   \* holder of Marketplace.c_id_lock
    p_locks,     \* producer id -> holder of Marketplace.p_locks[id]
    lock_held,   \* product -> lock object -> holder of that lock object
    pc,          \* thread -> position inside the call it is running
    loc,         \* thread -> local variables of the running call
    own,         \* thread -> identity it got from register_producer / new_cart
    balance,     \* product -> successful publishes minus units returned by place_order
    obs,         \* observer of calls that run without interference
    race,        \* observer of a batch of concurrent add_to_cart calls
    bp,          \* observer of refused publishes and the checkouts after them
    work         \* producer thread -> position of Producer.run in its products

vars == <<p_id, c_id, prod_q, carts, prod_queue, prod_locks, p_id_lock, c_id_lock,
          p_locks, lock_held, pc, loc, own, balance, obs, race, bp, work>>

market == <<p_id, c_id, prod_q, carts, prod_queue>>
locks == <<prod_locks, p_id_lock, c_id_lock, p_locks, lock_held>>

\* ------------------------------------------------------------ return values
RetBool(b) == [tag |-> IF b THEN "True" ELSE "False", val |-> <<>>]
RetNone == [tag |-> "None", val |-> <<>>]
RetList(s) == [tag |-> "list", val |-> s]
RetId(n) == [tag |-> "id", val |-> <<n>>]
RetRaise == [tag |-> "IndexError", val |-> <<>>]
NoRet == [tag |-> "", val |-> <<>>]

LocInit == [c |-> NoId, x |-> "", q |-> 0, p |-> NoId, i |-> 0, lk |-> NoLock, lst |-> <<>>]

EmptyMap == [k \in {} |-> 0]
\* d[k] = v of a Python dict: adds the key or overwrites its value.
Put(d, k, v) == [j \in DOMAIN d \cup {k} |-> IF j = k THEN v ELSE d[j]]

\* ------------------------------------------------------------------- heapq
EntryLess_producerFirst(a, b) == a[2] < b[2] \/ (a[2] = b[2] /\ a[1] < b[1])

\* Python compares the tuples (occupancy, producer id) lexicographically.
EntryLess(a, b) == a[1] < b[1] \/ (a[1] = b[1] /\ a[2] < b[2])

\* heapq._siftdown(heap, startpos, pos), positions counted from 1.
RECURSIVE SiftDownLoop(_, _, _, _)
SiftDownLoop(h, startpos, pos, newitem) ==
    IF pos > startpos /\ EntryLess(newitem, h[pos \div 2])
    THEN SiftDownLoop([h EXCEPT ![pos] = h[pos \div 2]], startpos, pos \div 2, newitem)
    ELSE [h EXCEPT ![pos] = newitem]

SiftDown(h, startpos, pos) == SiftDownLoop(h, startpos, pos, h[pos])

\* heapq._siftup(heap, pos): bubble the smaller child up to a leaf, then sift down.
RECURSIVE SiftUpLoop(_, _, _, _)
SiftUpLoop(h, startpos, pos, newitem) ==
    LET childpos == 2 * pos
        rightpos == childpos + 1
        pick == IF rightpos <= Len(h) /\ ~EntryLess(h[childpos], h[rightpos])
                THEN rightpos ELSE childpos
    IN  IF childpos <= Len(h)
        THEN SiftUpLoop([h EXCEPT ![pos] = h[pick]], startpos, pick, newitem)
        ELSE SiftDown([h EXCEPT ![pos] = newitem], startpos, pos)

SiftUp(h, pos) == SiftUpLoop(h, pos, pos, h[pos])

HeapPush(h, item) == SiftDown(Append(h, item), 1, Len(h) + 1)

\* heappop on a non-empty heap: the item returned and the heap left.
HeapPopItem(h) == IF Len(h) = 1 THEN h[Len(h)] ELSE h[1]

HeapPopRest_keep(h) == h

HeapPopRest(h) ==
    LET lastelt == h[Len(h)]
        rest == SubSeq(h, 1, Len(h) - 1)
    IN  IF rest = <<>> THEN rest ELSE SiftUp([rest EXCEPT ![1] = lastelt], 1)

\* ---------------------------------------------------------------- observer
Idle(t) == pc[t] \in {"idle", "dead"}
Quiet(t) == \A u \in Threads \ {t} : Idle(u)
Quiescent == \A u \in Threads : Idle(u)

Snapshot == [ok |-> TRUE, p_id |-> p_id, c_id |-> c_id, prod_q |-> prod_q,
             carts |-> carts, prod_queue |-> prod_queue]
NoSnap == [ok |-> FALSE, p_id |-> 0, c_id |-> 0, prod_q |-> EmptyMap,
           carts |-> EmptyMap, prod_queue |-> EmptyMap]
NoPrev == [ok |-> FALSE, op |-> "", c |-> NoId, x |-> "", ret |-> NoRet, cart |-> <<>>]
NoLast == [ok |-> FALSE, op |-> "", c |-> NoId, x |-> "", ret |-> NoRet,
           pre |-> NoSnap, prev |-> NoPrev]
ObsOff == [on |-> FALSE, who |-> NoThread, cur |-> NoSnap, last |-> NoLast]
ObsInit == [ObsOff EXCEPT !.on = TRUE]

ProductsOf_reversed(cart) == [i \in 1..Len(cart) |-> cart[Len(cart) + 1 - i].product]

\* lines 171 and 197: [cart_element["product"] for cart_element in cart_list]
ProductsOf(cart) == [i \in 1..Len(cart) |-> cart[i].product]

\* What the observer keeps of the call before when the next one returns: the
\* calls that took effect, with the cart's products before them.
Summary(l) ==
    IF /\ l.ok
       /\ \/ l.op \in {"remove_from_cart", "publish"} /\ l.ret.tag = "True"
          \/ l.op = "place_order" /\ l.ret.tag = "list" /\ l.ret.val # <<>>
    THEN [ok |-> TRUE, op |-> l.op, c |-> l.c, x |-> l.x, ret |-> l.ret,
          cart |-> IF l.op = "publish" THEN <<>> ELSE ProductsOf(l.pre.carts[l.c])]
    ELSE NoPrev

\* The observer as thread t sees it: anything recorded is dropped once another
\* thread has taken a step.
ObsBase(t) == IF obs.who = t THEN obs ELSE ObsInit

\* t takes the first step of a call that does not return in that step: the call
\* is observed when every other thread is outside the Marketplace.  Of the
\* call before only its summary is kept.
ObsCall(t) ==
    IF ~obs.on THEN obs
    ELSE IF Quiet(t)
         THEN [on |-> TRUE, who |-> t, cur |-> Snapshot,
               last |-> [NoLast EXCEPT !.prev = Summary(ObsBase(t).last)]]
         ELSE ObsInit
\* t takes an inner step of its call.
ObsStep(t) == IF ~obs.on THEN obs ELSE ObsBase(t)
\* t returns r from op(c, x); pre is the state at the call when nobody interfered.
ObsReturn(t, op, c, x, r) ==
    LET b == ObsBase(t)
        pre == IF pc[t] = "idle" THEN (IF Quiet(t) THEN Snapshot ELSE NoSnap) ELSE b.cur
    IN  IF ~obs.on THEN obs
        ELSE IF pre.ok
             THEN [on |-> TRUE, who |-> t, cur |-> NoSnap,
                   last |-> [ok |-> TRUE, op |-> op, c |-> c, x |-> x, ret |-> r,
                             pre |-> pre,
                             prev |-> IF pc[t] = "idle" THEN Summary(b.last)
                                      ELSE b.last.prev]]
             ELSE ObsInit

RaceInit == [on |-> FALSE, x |-> "", pool |-> <<>>, carts |-> EmptyMap,
             called |-> {}, won |-> {}, overlap |-> FALSE]

\* Number of reservations owned by producer p in a cart.
OwnedIn(cart, p) == Cardinality({i \in 1..Len(cart) : cart[i].producer_id = p})

\* What is remembered of producer p's publishes and of the checkouts after
\* them, when the observer is on:
\*   "open"      nothing to remember
\*   "refused"   p's last publish was refused; no unit of p released since
\*   "releasing" since that refusal a place_order has released a unit of p
\*               and has not returned yet
\*   "released"  since that refusal a place_order of a cart with a unit of p
\*               has returned
\*   "reopened"  a publish of p has succeeded after such a release
ProducerIds == 0..(NumProducers - 1)
BpOff == [on |-> FALSE, st |-> [p \in ProducerIds |-> "open"]]
BpInit == [BpOff EXCEPT !.on = TRUE]

\* publish of p returns False
BpRefused(p) == IF bp.on THEN [bp EXCEPT !.st[p] = "refused"] ELSE bp
\* publish of p returns True
BpPublished(p) ==
    IF bp.on /\ bp.st[p] \in {"releasing", "released"}
    THEN [bp EXCEPT !.st[p] = "reopened"]
    ELSE bp
\* place_order lowers p's occupancy and goes on with its cart
BpLowered(p) ==
    IF bp.on /\ bp.st[p] = "refused" THEN [bp EXCEPT !.st[p] = "releasing"] ELSE bp
\* place_order returns; cart is its cart before it is emptied, whose last
\* reservation is released in the same step
BpFinished(cart) ==
    IF bp.on
    THEN [bp EXCEPT !.st = [p \in ProducerIds |->
             IF \/ bp.st[p] = "releasing" /\ OwnedIn(cart, p) > 0
                \/ /\ bp.st[p] = "refused" /\ cart # <<>>
                   /\ cart[Len(cart)].producer_id = p
             THEN "released" ELSE bp.st[p]]]
    ELSE bp

\* ----------------------------------------------------------- Producer.run
\* The (product, quantity) pairs a producer is configured with (producer.py
\* line 16); the production delay plays no part.
ProdData == <<[prod |-> "coffee", qty |-> 2], [prod |-> "tea", qty |-> 1]>>

\* k: the pair the for loop of line 30 is at; n: how many publishes of the
\* running all(...) of line 33 have returned True; done: successful publishes
\* since the loop arrived at that pair.
WorkOff == [on |-> FALSE, at |-> [t \in ProducerThreads |-> [k |-> 1, n |-> 0, done |-> 0]]]
WorkInit == [WorkOff EXCEPT !.on = TRUE]

\* line 33: the worker calls publish for the product of its pair while the
\* generator has publishes left.
WorkerPublishes(t, x) ==
    work.on =>
        /\ x = ProdData[work.at[t].k].prod
        /\ work.at[t].n < ProdData[work.at[t].k].qty
        /\ work.at[t].done < MaxPublishes

\* line 33: a publish that returns False ends all(...) with False; after the
\* sleep of line 34 the while loop builds the generator anew.
WorkRefused(t) == IF work.on THEN [work EXCEPT !.at[t].n = 0] ELSE work

\* line 33: a publish that returns True lets all(...) go on with the next one.
WorkPublished(t) ==
    IF work.on THEN [work EXCEPT !.at[t].n = @ + 1, !.at[t].done = @ + 1] ELSE work

\* -------------------------------------------------------------------- Init
Init ==
    /\ p_id = 0
    /\ c_id = 0
    /\ prod_q = EmptyMap
    /\ carts = EmptyMap
    /\ prod_queue = [x \in Products |-> <<>>]
    /\ prod_locks = [x \in Products |-> NoLock]
    /\ p_id_lock = NoThread
    /\ c_id_lock = NoThread
    /\ p_locks = EmptyMap
    /\ lock_held = [x \in Products |-> [k \in LockObjects |-> NoThread]]
    /\ pc = [t \in Threads |-> "idle"]
    /\ loc = [t \in Threads |-> LocInit]
    /\ own = [t \in Threads |-> NoId]
    /\ balance = [x \in Products |-> 0]
    /\ obs = ObsOff
    /\ race = RaceInit
    /\ bp = BpOff
    /\ work = WorkOff

\* ------------------------------------------------------- steps of a thread
\* Thread t moves to position l of its call with locals v.
Go(t, l, v) ==
    /\ pc' = [pc EXCEPT ![t] = l]
    /\ loc' = [loc EXCEPT ![t] = v]
    /\ obs' = IF pc[t] = "idle" THEN ObsCall(t) ELSE ObsStep(t)

\* Thread t returns r from op(c, x).
Return(t, op, c, x, r) ==
    /\ pc' = [pc EXCEPT ![t] = "idle"]
    /\ loc' = [loc EXCEPT ![t] = LocInit]
    /\ obs' = ObsReturn(t, op, c, x, r)

\* An uncaught exception ends the thread that made the call.
Raise(t, op, c, x) ==
    /\ pc' = [pc EXCEPT ![t] = "dead"]
    /\ loc' = [loc EXCEPT ![t] = LocInit]
    /\ obs' = ObsReturn(t, op, c, x, RetRaise)

LockFree_ignored(holder) == TRUE

\* "with lock:" is entered when no thread holds the lock.
LockFree(holder) == holder = NoThread

Released_kept(t) == t

\* Leaving a "with lock:" block, by its end, a return or an exception, leaves
\* the lock that thread t held without a holder.
Released(t) == NoThread

\* Outside a batch of add_to_cart calls every call may start.
CanCall(t) == pc[t] = "idle" /\ ~race.on

\* ------------------------------------------------------- register_producer
\* lines 46-48: under p_id_lock, name the producer after the counter and
\* enter it in prod_q and p_locks.
RegisterAssign(t) ==
    /\ t \in ProducerThreads
    /\ CanCall(t)
    /\ own[t] = NoId
    /\ LockFree(p_id_lock)
    /\ p_id_lock' = t
    /\ prod_q' = Put(prod_q, p_id, 0)
    /\ p_locks' = Put(p_locks, p_id, NoThread)
    /\ Go(t, "rp_inc", [LocInit EXCEPT !.p = p_id])
    /\ UNCHANGED <<p_id, c_id, carts, prod_queue, prod_locks, c_id_lock, lock_held,
                   own, balance, race, bp, work>>

\* lines 49-51: advance the counter, leave the lock, return the name.
RegisterInc(t) ==
    /\ pc[t] = "rp_inc"
    /\ p_id' = p_id + 1
    /\ p_id_lock' = Released(t)
    /\ own' = [own EXCEPT ![t] = loc[t].p]
    /\ Return(t, "register_producer", NoId, "", RetId(loc[t].p))
    /\ UNCHANGED <<c_id, prod_q, carts, prod_queue, prod_locks, c_id_lock, p_locks,
                   lock_held, balance, race, bp, work>>

\* ----------------------------------------------------------------- publish
PublishFull_offByOne(q) == q > QSize

\* line 112
PublishFull(q) == q = QSize

PublishEntry_after(q, p) == <<q + 1, p>>

\* line 116: the entry publish pushes for producer p at occupancy q.
PublishEntry(q, p) == <<q, p>>

\* lines 110-116: under the producer's lock, refuse at capacity, else push
\* (occupancy, producer) on the product's heap.
PublishPush(t, x) ==
    /\ t \in ProducerThreads
    /\ CanCall(t)
    /\ own[t] # NoId
    /\ LockFree(p_locks[own[t]])
    /\ WorkerPublishes(t, x)
    /\ LET p == own[t]
           q == prod_q[p]
       IN  IF PublishFull(q)
           THEN /\ Return(t, "publish", p, x, RetBool(FALSE))
                /\ bp' = BpRefused(p)
                /\ work' = WorkRefused(t)
                /\ UNCHANGED <<prod_queue, p_locks>>
           ELSE /\ prod_queue' = [prod_queue EXCEPT ![x] = HeapPush(@, PublishEntry(q, p))]
                /\ p_locks' = [p_locks EXCEPT ![p] = t]
                /\ Go(t, "pub_inc", [LocInit EXCEPT !.x = x, !.p = p, !.q = q])
                /\ UNCHANGED <<bp, work>>
    /\ UNCHANGED <<p_id, c_id, prod_q, carts, prod_locks, p_id_lock, c_id_lock,
                   lock_held, own, balance, race>>

\* lines 117-119: count the unit, leave the lock.
PublishInc(t) ==
    /\ pc[t] = "pub_inc"
    /\ prod_q' = [prod_q EXCEPT ![loc[t].p] = @ + 1]
    /\ p_locks' = [p_locks EXCEPT ![loc[t].p] = Released(t)]
    /\ balance' = [balance EXCEPT ![loc[t].x] = @ + 1]
    /\ bp' = BpPublished(loc[t].p)
    /\ work' = WorkPublished(t)
    /\ Return(t, "publish", loc[t].p, loc[t].x, RetBool(TRUE))
    /\ UNCHANGED <<p_id, c_id, carts, prod_queue, prod_locks, p_id_lock, c_id_lock,
                   lock_held, own, race>>

\* ---------------------------------------------------------------- new_cart
\* lines 60-62: under c_id_lock, create the cart numbered by the counter.
NewCartAssign(t) ==
    /\ t \in ConsumerThreads
    /\ CanCall(t)
    /\ c_id < MaxCarts
    /\ LockFree(c_id_lock)
    /\ c_id_lock' = t
    /\ carts' = Put(carts, c_id, <<>>)
    /\ Go(t, "nc_inc", [LocInit EXCEPT !.c = c_id])
    /\ UNCHANGED <<p_id, c_id, prod_q, prod_queue, prod_locks, p_id_lock, p_locks,
                   lock_held, own, balance, race, bp, work>>

\* lines 63-65: advance the counter, leave the lock, return the number.
NewCartInc(t) ==
    /\ pc[t] = "nc_inc"
    /\ c_id' = c_id + 1
    /\ c_id_lock' = Released(t)
    /\ own' = [own EXCEPT ![t] = loc[t].c]
    /\ Return(t, "new_cart", loc[t].c, "", RetId(loc[t].c))
    /\ UNCHANGED <<p_id, prod_q, carts, prod_queue, prod_locks, p_id_lock, p_locks,
                   lock_held, balance, race, bp, work>>

\* ------------------------------------------------------------- add_to_cart
OccupancyOnMove_released(q, p) == [q EXCEPT ![p] = @ - 1]

\* lines 67-97 and 121-128: moving a unit of producer p between a pool and a
\* cart has no statement that writes prod_q.
OccupancyOnMove(q, p) == q

\* Inside a batch only add_to_cart(own cart, the batch's product) starts, once
\* per consumer.
CanAdd(t, c, x) ==
    /\ pc[t] = "idle"
    /\ race.on => (x = race.x /\ t \notin race.called /\ c \in DOMAIN carts)

RaceAdd(t) ==
    IF race.on
    THEN [race EXCEPT !.called = @ \cup {t},
                      !.overlap = @ \/ \E u \in race.called : ~Idle(u)]
    ELSE race
RaceWon(t) == IF race.on THEN [race EXCEPT !.won = @ \cup {t}] ELSE race

\* line 83: the unlocked check of the cart and of the pool.
AddCheck(t, c, x) ==
    /\ t \in ConsumerThreads
    /\ c \in {own[t], UnknownCart}
    /\ CanAdd(t, c, x)
    /\ race' = RaceAdd(t)
    /\ IF c \notin DOMAIN carts \/ prod_queue[x] = <<>>
       THEN Return(t, "add_to_cart", c, x, RetBool(FALSE))
       ELSE Go(t, "atc_haslock", [LocInit EXCEPT !.c = c, !.x = x])
    /\ UNCHANGED <<market, locks, own, balance, bp, work>>

\* line 87: is there a lock for the product yet?
AddHasLock(t) ==
    /\ pc[t] = "atc_haslock"
    /\ Go(t, IF prod_locks[loc[t].x] = NoLock THEN "atc_mklock" ELSE "atc_getlock", loc[t])
    /\ UNCHANGED <<market, locks, own, balance, race, bp, work>>

\* line 88: make a new lock object and install it.
AddMakeLock(t) ==
    /\ pc[t] = "atc_mklock"
    /\ prod_locks' = [prod_locks EXCEPT ![loc[t].x] = @ + 1]
    /\ Go(t, "atc_getlock", loc[t])
    /\ UNCHANGED <<market, p_id_lock, c_id_lock, p_locks, lock_held, own, balance, race, bp, work>>

\* line 90: read the lock object that is installed now.
AddGetLock(t) ==
    /\ pc[t] = "atc_getlock"
    /\ Go(t, "atc_acquire", [loc[t] EXCEPT !.lk = prod_locks[loc[t].x]])
    /\ UNCHANGED <<market, locks, own, balance, race, bp, work>>

\* lines 90-93: enter that lock and check the pool again.
AddRecheck(t) ==
    /\ pc[t] = "atc_acquire"
    /\ LockFree(lock_held[loc[t].x][loc[t].lk])
    /\ IF prod_queue[loc[t].x] = <<>>
       THEN /\ Return(t, "add_to_cart", loc[t].c, loc[t].x, RetBool(FALSE))
            /\ UNCHANGED lock_held
       ELSE /\ Go(t, "atc_pop", loc[t])
            /\ lock_held' = [lock_held EXCEPT ![loc[t].x][loc[t].lk] = t]
    /\ UNCHANGED <<market, prod_locks, p_id_lock, c_id_lock, p_locks, own, balance, race, bp, work>>

\* The reservation add_product_to_cart appends (line 69).
Reservation(x, p) == [product |-> x, producer_id |-> p]

AddCartGrows_not(cart, r) == cart
\* line 69: carts[c_id].append(...)
AddCartGrows(cart, r) == Append(cart, r)

\* lines 95-97: heappop, append the reservation to the cart, leave the lock.
\* heappop of an empty list raises IndexError, which leaves the with block
\* and the call.
AddPop(t) ==
    /\ pc[t] = "atc_pop"
    /\ lock_held' = [lock_held EXCEPT ![loc[t].x][loc[t].lk] = Released(t)]
    /\ LET h == prod_queue[loc[t].x]
       IN  IF h = <<>>
           THEN /\ Raise(t, "add_to_cart", loc[t].c, loc[t].x)
                /\ UNCHANGED <<prod_queue, carts, prod_q, race>>
           ELSE /\ prod_queue' = [prod_queue EXCEPT ![loc[t].x] = HeapPopRest(h)]
                /\ carts' = [carts EXCEPT ![loc[t].c] =
                                AddCartGrows(@, Reservation(loc[t].x, HeapPopItem(h)[2]))]
                /\ prod_q' = OccupancyOnMove(prod_q, HeapPopItem(h)[2])
                /\ race' = RaceWon(t)
                /\ Return(t, "add_to_cart", loc[t].c, loc[t].x, RetBool(TRUE))
    /\ UNCHANGED <<p_id, c_id, prod_locks, p_id_lock, c_id_lock, p_locks, own, balance,
                   bp, work>>

\* -------------------------------------------------------- remove_from_cart
FirstIndex_last(cart, x) ==
    IF \E i \in 1..Len(cart) : cart[i].product = x
    THEN CHOOSE i \in 1..Len(cart) :
            /\ cart[i].product = x
            /\ \A j \in (i + 1)..Len(cart) : cart[j].product # x
    ELSE 0

\* lines 122-123: the position of the first reservation of product x, 0 if none.
FirstIndex(cart, x) ==
    IF \E i \in 1..Len(cart) : cart[i].product = x
    THEN CHOOSE i \in 1..Len(cart) :
            /\ cart[i].product = x
            /\ \A j \in 1..(i - 1) : cart[j].product # x
    ELSE 0

DelAt_offByOne(s, i) == SubSeq(s, 1, i) \o SubSeq(s, i + 2, Len(s))

\* line 126: del cart[i]
DelAt(s, i) == SubSeq(s, 1, i - 1) \o SubSeq(s, i + 1, Len(s))

\* lines 141-146, 122-125: unknown cart, or scan the cart and read the
\* owner's occupancy as it is now.
RemoveFind(t, c, x) ==
    /\ t \in ConsumerThreads
    /\ c \in {own[t], UnknownCart}
    /\ CanCall(t)
    /\ IF c \notin DOMAIN carts
       THEN Return(t, "remove_from_cart", c, x, RetBool(FALSE))
       ELSE LET i == FirstIndex(carts[c], x)
            IN  IF i = 0
                THEN Return(t, "remove_from_cart", c, x, RetBool(FALSE))
                ELSE Go(t, "rm_push",
                        [LocInit EXCEPT !.c = c, !.x = x, !.i = i,
                                        !.p = carts[c][i].producer_id,
                                        !.q = prod_q[carts[c][i].producer_id]])
    /\ UNCHANGED <<market, locks, own, balance, race, bp, work>>

\* lines 125-127: push (occupancy read, owner) back on the heap, no lock
\* taken, and delete the reservation.
RemovePush(t) ==
    /\ pc[t] = "rm_push"
    /\ prod_queue' = [prod_queue EXCEPT
                        ![loc[t].x] = HeapPush(@, <<loc[t].q, loc[t].p>>)]
    /\ carts' = [carts EXCEPT ![loc[t].c] = DelAt(@, loc[t].i)]
    /\ prod_q' = OccupancyOnMove(prod_q, loc[t].p)
    /\ Return(t, "remove_from_cart", loc[t].c, loc[t].x, RetBool(TRUE))
    /\ UNCHANGED <<p_id, c_id, locks, own, balance, race, bp, work>>

\* ------------------------------------------------------------- place_order
NotFound_emptyList == RetList(<<>>)

\* lines 168 and 194: what place_order and get_cart return for a cart that is
\* not in carts.
NotFound == RetNone

PlaceOrderDec_twice(q) == q - 2

PlaceOrderDec_none(q) == q

\* line 176
PlaceOrderDec(q) == q - 1

CountOf(s, x) == Cardinality({i \in 1..Len(s) : s[i] = x})

PlaceOrderFinish_keepCart(t, c, result) ==
    /\ UNCHANGED carts
    /\ bp' = BpFinished(carts[c])
    /\ balance' = [x \in Products |-> balance[x] - CountOf(result, x)]
    /\ Return(t, "place_order", c, "", RetList(result))

\* lines 178-180: empty the cart, return the result.
PlaceOrderFinish(t, c, result) ==
    /\ carts' = [carts EXCEPT ![c] = <<>>]
    /\ bp' = BpFinished(carts[c])
    /\ balance' = [x \in Products |-> balance[x] - CountOf(result, x)]
    /\ Return(t, "place_order", c, "", RetList(result))

\* lines 173-176: reservation i of the cart: under its producer's lock,
\* release one unit of that producer's capacity.
PlaceOrderLoop(t, c, i, result) ==
    LET p == carts[c][i].producer_id
    IN  /\ LockFree(p_locks[p])
        /\ prod_q' = [prod_q EXCEPT ![p] = PlaceOrderDec(@)]
        /\ IF i < Len(carts[c])
           THEN /\ Go(t, "po_loop", [LocInit EXCEPT !.c = c, !.i = i + 1, !.lst = result])
                /\ bp' = BpLowered(p)
                /\ UNCHANGED <<carts, balance>>
           ELSE PlaceOrderFinish(t, c, result)

\* lines 166-176: unknown cart, or build the result and take the first
\* reservation.
PlaceOrderStart(t, c) ==
    /\ t \in ConsumerThreads
    /\ c \in {own[t], UnknownCart}
    /\ CanCall(t)
    /\ IF c \notin DOMAIN carts
       THEN /\ Return(t, "place_order", c, "", NotFound)
            /\ UNCHANGED <<prod_q, carts, balance, bp>>
       ELSE IF carts[c] = <<>>
            THEN /\ PlaceOrderFinish(t, c, <<>>)
                 /\ UNCHANGED prod_q
            ELSE PlaceOrderLoop(t, c, 1, ProductsOf(carts[c]))
    /\ UNCHANGED <<p_id, c_id, prod_queue, locks, own, race, work>>

\* the next reservation of the cart
PlaceOrderNext(t) ==
    /\ pc[t] = "po_loop"
    /\ PlaceOrderLoop(t, loc[t].c, loc[t].i, loc[t].lst)
    /\ UNCHANGED <<p_id, c_id, prod_queue, locks, own, race, work>>

\* ---------------------------------------------------------------- get_cart
GetCart(t, c) ==
    /\ t \in ConsumerThreads
    /\ c \in {own[t], UnknownCart}
    /\ CanCall(t)
    /\ Return(t, "get_cart", c, "",
              IF c \in DOMAIN carts THEN RetList(ProductsOf(carts[c])) ELSE NotFound)
    /\ UNCHANGED <<market, locks, own, balance, race, bp, work>>

\* -------------------------------------------------------------------- Next
\* One step of thread t.
Step(t) ==
    \/ RegisterAssign(t) \/ RegisterInc(t)
    \/ \E x \in Products : PublishPush(t, x)
    \/ PublishInc(t)
    \/ NewCartAssign(t) \/ NewCartInc(t)
    \/ \E x \in Products : \E c \in {own[t], UnknownCart} : AddCheck(t, c, x)
    \/ AddHasLock(t) \/ AddMakeLock(t) \/ AddGetLock(t) \/ AddRecheck(t) \/ AddPop(t)
    \/ \E x \in Products : \E c \in {own[t], UnknownCart} : RemoveFind(t, c, x)
    \/ RemovePush(t)
    \/ \E c \in {own[t], UnknownCart} : PlaceOrderStart(t, c)
    \/ PlaceOrderNext(t)
    \/ \E c \in {own[t], UnknownCart} : GetCart(t, c)

\* A thread starts a call while fewer than MaxInside threads are inside one.
MayStep(t) ==
    pc[t] = "idle" => Cardinality({u \in Threads : ~Idle(u)}) < MaxInside

Next == \E t \in Threads : MayStep(t) /\ Step(t)

\* Any interleaving of the threads' steps with up to MaxInside calls running
\* at a time.
Spec == Init /\ [][Next]_vars

\* Calls made one after the other (by any threads, in any order): a thread
\* steps only while every other thread is outside the Marketplace.  The
\* observer records each call's state before, arguments and result.
InitSeq ==
    /\ p_id = 0
    /\ c_id = 0
    /\ prod_q = EmptyMap
    /\ carts = EmptyMap
    /\ prod_queue = [x \in Products |-> <<>>]
    /\ prod_locks = [x \in Products |-> NoLock]
    /\ p_id_lock = NoThread
    /\ c_id_lock = NoThread
    /\ p_locks = EmptyMap
    /\ lock_held = [x \in Products |-> [k \in LockObjects |-> NoThread]]
    /\ pc = [t \in Threads |-> "idle"]
    /\ loc = [t \in Threads |-> LocInit]
    /\ own = [t \in Threads |-> NoId]
    /\ balance = [x \in Products |-> 0]
    /\ obs = ObsInit
    /\ race = RaceInit
    /\ bp = BpOff
    /\ work = WorkOff

NextSeq == \E t \in Threads : Quiet(t) /\ Step(t)

SpecSeq == InitSeq /\ [][NextSeq]_vars

\* A batch of add_to_cart calls for one product, started when no call is in
\* flight.  Before it the calls are made one after the other; while it runs
\* its calls interleave in every way and nothing else is called.
StartRace ==
    /\ ~race.on
    /\ Quiescent
    /\ \E x \in Products :
          race' = [on |-> TRUE, x |-> x, pool |-> prod_queue[x], carts |-> carts,
                   called |-> {}, won |-> {}, overlap |-> FALSE]
    /\ UNCHANGED <<market, locks, pc, loc, own, balance, obs, bp, work>>

NextRace ==
    \/ StartRace
    \/ race.on /\ \E t \in Threads : Step(t)
    \/ ~race.on /\ NextSeq

SpecRace == Init /\ [][NextRace]_vars

\* Any interleaving of the producers and one consumer; the observer of
\* refused publishes is on.
InitBack ==
    /\ p_id = 0
    /\ c_id = 0
    /\ prod_q = EmptyMap
    /\ carts = EmptyMap
    /\ prod_queue = [x \in Products |-> <<>>]
    /\ prod_locks = [x \in Products |-> NoLock]
    /\ p_id_lock = NoThread
    /\ c_id_lock = NoThread
    /\ p_locks = EmptyMap
    /\ lock_held = [x \in Products |-> [k \in LockObjects |-> NoThread]]
    /\ pc = [t \in Threads |-> "idle"]
    /\ loc = [t \in Threads |-> LocInit]
    /\ own = [t \in Threads |-> NoId]
    /\ balance = [x \in Products |-> 0]
    /\ obs = ObsOff
    /\ race = RaceInit
    /\ bp = BpInit
    /\ work = WorkOff

BackThreads == ProducerThreads \cup {NumProducers + 1}

NextBack == \E t \in BackThreads : Step(t)

SpecBack == InitBack /\ [][NextBack]_vars

\* Producer.run, lines 30-33: all(...) has returned True, the while loop
\* ends and the for loop takes the next pair (the while True loop of line 29
\* starts the list again after the last one).
WorkerAdvance(t) ==
    /\ t \in ProducerThreads
    /\ work.on
    /\ pc[t] = "idle"
    /\ work.at[t].n = ProdData[work.at[t].k].qty
    /\ work' = [work EXCEPT !.at[t] = [k |-> (work.at[t].k % Len(ProdData)) + 1,
                                      n |-> 0, done |-> 0]]
    /\ UNCHANGED <<market, locks, pc, loc, own, balance, obs, race, bp>>

\* The producers run Producer.run; one consumer calls the Marketplace as it
\* likes.
InitWorker ==
    /\ p_id = 0
    /\ c_id = 0
    /\ prod_q = EmptyMap
    /\ carts = EmptyMap
    /\ prod_queue = [x \in Products |-> <<>>]
    /\ prod_locks = [x \in Products |-> NoLock]
    /\ p_id_lock = NoThread
    /\ c_id_lock = NoThread
    /\ p_locks = EmptyMap
    /\ lock_held = [x \in Products |-> [k \in LockObjects |-> NoThread]]
    /\ pc = [t \in Threads |-> "idle"]
    /\ loc = [t \in Threads |-> LocInit]
    /\ own = [t \in Threads |-> NoId]
    /\ balance = [x \in Products |-> 0]
    /\ obs = ObsOff
    /\ race = RaceInit
    /\ bp = BpOff
    /\ work = WorkInit

NextWorker == NextBack \/ \E t \in ProducerThreads : WorkerAdvance(t)

SpecWorker == InitWorker /\ [][NextWorker]_vars

\* ================================================================= claims

\* The call the observer has just seen return: who is outside the Marketplace
\* again and nobody else has moved since.
Returned(op) == obs.last.ok /\ obs.last.op = op /\ pc[obs.who] = "idle"

\* Number of reservations of product x held in carts.
RECURSIVE SumOver(_, _)
SumOver(f, S) ==
    IF S = {} THEN 0
    ELSE LET k == CHOOSE k \in S : TRUE IN f[k] + SumOver(f, S \ {k})

Reserved(x) ==
    SumOver([c \in DOMAIN carts |-> CountOf(ProductsOf(carts[c]), x)], DOMAIN carts)

\* Number of copies of entry e in a heap.
Copies(h, e) == Cardinality({i \in 1..Len(h) : h[i] = e})

\* h2 is h1 with one more copy of e / h1 is h2 with one copy of e less.
PlusOne(h1, e, h2) ==
    /\ Len(h2) = Len(h1) + 1
    /\ \A i \in 1..Len(h2) : Copies(h2, h2[i]) = Copies(h1, h2[i]) + IF h2[i] = e THEN 1 ELSE 0

\* ---- C1: every registered producer's occupancy stays within 0..capacity,
\* in every state of every interleaving.
C1_CapacityInvariant ==
    \A p \in DOMAIN prod_q : 0 <= prod_q[p] /\ prod_q[p] <= QSize

\* a checkout in the middle of its loop has released one producer's unit
\* while another producer is at capacity
C1_Witness ==
    \E t \in ConsumerThreads :
        /\ pc[t] = "po_loop"
        /\ \E p, q \in DOMAIN prod_q : prod_q[p] = QSize /\ prod_q[q] = 0

\* ---- C3: at every point where no call is in flight, for every product,
\* publishes minus units returned by place_order minus units reserved in
\* carts equals the number of entries in the product's pool.
C3_Conservation ==
    Quiescent => \A x \in Products : balance[x] - Reserved(x) = Len(prod_queue[x])

\* no call in flight, a product with one unit in a cart and one in the pool
C3_Witness ==
    /\ Quiescent
    /\ \E x \in Products : Reserved(x) >= 1 /\ Len(prod_queue[x]) >= 1

\* ---- C2: a batch of n add_to_cart calls for one product from different
\* carts, run in any interleaving against a pool of k units with nothing else
\* running: once all have ended, exactly min(n, k) returned true, each of them
\* holds one more reservation of the product and the others' carts are as
\* before, the pool holds k - min(n, k) entries, and for every producer its
\* units in the pool plus its units newly reserved are its units of the pool
\* before the batch (no unit twice, none lost).
MinOf(a, b) == IF a < b THEN a ELSE b

PoolOwned(h, p) == Cardinality({i \in 1..Len(h) : h[i][2] = p})

C2_NoDoubleAllocation ==
    (race.on /\ Quiescent) =>
        LET x == race.x
            k == Len(race.pool)
            m == MinOf(Cardinality(race.called), k)
        IN  /\ Cardinality(race.won) = m
            /\ Len(prod_queue[x]) = k - m
            /\ \A t \in race.called :
                  /\ t \in race.won =>
                        /\ Len(carts[own[t]]) = Len(race.carts[own[t]]) + 1
                        /\ SubSeq(carts[own[t]], 1, Len(race.carts[own[t]])) = race.carts[own[t]]
                        /\ carts[own[t]][Len(carts[own[t]])].product = x
                  /\ t \notin race.won => carts[own[t]] = race.carts[own[t]]
            /\ \A t, u \in race.called : t # u => own[t] # own[u]
            /\ \A p \in DOMAIN prod_q :
                  PoolOwned(race.pool, p) =
                      PoolOwned(prod_queue[x], p)
                      + Cardinality({t \in race.won :
                                        carts[own[t]][Len(carts[own[t]])].producer_id = p})

\* two overlapping calls against a pool of two units have both ended
C2_Witness ==
    /\ race.on /\ Quiescent /\ race.overlap
    /\ Cardinality(race.called) = 2
    /\ Len(race.pool) = 2
    /\ Cardinality(race.won) = 2

\* ---- C4: every call returns a value: no thread is ended by an exception,
\* and add_to_cart never reaches heappop with the pool empty.
C4_NoFaultEscapes ==
    \A t \in Threads :
        /\ pc[t] # "dead"
        /\ pc[t] = "atc_pop" => prod_queue[loc[t].x] # <<>>

\* ---- C5: every step that changes a product's pool is taken by a thread that
\* holds that product's lock, and no two threads are at once about to change
\* the same product's pool.
PoolStep(t) == pc[t] \in {"atc_pop", "rm_push"}

C5_PoolMutationUnderProductLock ==
    [][/\ \A x \in Products : \A t \in Threads :
             (prod_queue'[x] # prod_queue[x] /\ pc'[t] # pc[t])
                => \E k \in LockObjects : lock_held[x][k] = t
       /\ \A t, u \in Threads :
             (t # u /\ PoolStep(t) /\ PoolStep(u)) => loc[t].x # loc[u].x]_vars

\* ---- C6: a successful add_to_cart for product X reserves the entry of X's
\* pool that is least by occupancy snapshot, then by producer identity, and
\* takes exactly that entry out of the pool.
KeyLeq(a, b) == a[1] < b[1] \/ (a[1] = b[1] /\ a[2] <= b[2])

C6_ExtractsMinimum ==
    (Returned("add_to_cart") /\ obs.last.ret.tag = "True") =>
        LET l == obs.last
            h == l.pre.prod_queue[l.x]
        IN  \E i \in 1..Len(h) :
               /\ \A j \in 1..Len(h) : KeyLeq(h[i], h[j])
               /\ carts[l.c] = Append(l.pre.carts[l.c],
                                      [product |-> l.x, producer_id |-> h[i][2]])
               /\ PlusOne(prod_queue[l.x], h[i], h)

\* the pool held a unit with the lower snapshot from the producer with the
\* higher identity, and add_to_cart has returned true
C6_Witness ==
    /\ Returned("add_to_cart") /\ obs.last.ret.tag = "True"
    /\ LET h == obs.last.pre.prod_queue[obs.last.x]
       IN  \E i, j \in 1..Len(h) : h[i][1] < h[j][1] /\ h[i][2] > h[j][2]

\* ---- C7: publish(p, x): at capacity it returns false and changes nothing;
\* below capacity it returns true, adds exactly the entry (occupancy before
\* the call, p) to x's pool and raises p's occupancy by one.  With capacity 1
\* a publish right after a successful one returns false.
C7_PublishContract ==
    Returned("publish") =>
        LET l == obs.last
            p == l.c
            q == l.pre.prod_q[p]
        IN  /\ q = QSize =>
                  /\ l.ret.tag = "False"
                  /\ prod_q = l.pre.prod_q
                  /\ prod_queue = l.pre.prod_queue
            /\ q # QSize =>
                  /\ l.ret.tag = "True"
                  /\ prod_q = [l.pre.prod_q EXCEPT ![p] = q + 1]
                  /\ PlusOne(l.pre.prod_queue[l.x], <<q, p>>, prod_queue[l.x])
                  /\ \A y \in Products \ {l.x} : prod_queue[y] = l.pre.prod_queue[y]
            /\ carts = l.pre.carts
            /\ (QSize = 1 /\ l.prev.ok /\ l.prev.op = "publish" /\ l.prev.c = p)
                  => l.ret.tag = "False"

\* a publish refused right after a publish of the same producer that succeeded
C7_Witness ==
    /\ Returned("publish")
    /\ obs.last.ret.tag = "False"
    /\ obs.last.prev.ok /\ obs.last.prev.op = "publish" /\ obs.last.prev.c = obs.last.c

C9_EmptyCheckoutIdempotent ==
    (/\ Returned("place_order")
     /\ obs.last.prev.ok /\ obs.last.prev.op = "place_order"
     /\ obs.last.prev.c = obs.last.c) =>
        /\ obs.last.prev.ret.val = obs.last.prev.cart
        /\ obs.last.prev.cart # <<>>
        /\ obs.last.ret.tag = "list"
        /\ obs.last.ret.val = <<>>
        /\ prod_q = obs.last.pre.prod_q

C9_Witness ==
    /\ Returned("place_order")
    /\ obs.last.prev.ok /\ obs.last.prev.op = "place_order"
    /\ obs.last.prev.c = obs.last.c
    /\ Len(obs.last.prev.cart) = 2

\* ---- C10 (as stated): remove_from_cart(cart, X) that returned true, then
\* add_to_cart(cart, X) with no other thread acting: the add returns true and
\* the cart's product keys are the sequence they were before the remove.
RoundTrip ==
    /\ Returned("add_to_cart")
    /\ obs.last.prev.ok /\ obs.last.prev.op = "remove_from_cart"
    /\ obs.last.prev.c = obs.last.c /\ obs.last.prev.x = obs.last.x

C10_RoundTripSequence ==
    RoundTrip =>
        /\ obs.last.ret.tag = "True"
        /\ ProductsOf(carts[obs.last.c]) = obs.last.prev.cart

\* ---- C10 (amended): ... the add returns true and the cart's product keys
\* are those before the remove with the first X moved to the end: the same
\* keys as often, in the same sequence only if no other product followed
\* that X.
C10_RoundTripMovesToEnd ==
    RoundTrip =>
        LET before == obs.last.prev.cart
            after == ProductsOf(carts[obs.last.c])
            x == obs.last.x
        IN  /\ obs.last.ret.tag = "True"
            /\ \E i \in 1..Len(before) :
                  /\ before[i] = x
                  /\ \A j \in 1..(i - 1) : before[j] # x
                  /\ after = SubSeq(before, 1, i - 1) \o SubSeq(before, i + 1, Len(before))
                                \o <<x>>
            /\ \A y \in Products : CountOf(after, y) = CountOf(before, y)

\* a round trip on a cart where another product followed X
C10_Witness ==
    /\ RoundTrip
    /\ Len(obs.last.prev.cart) = 2
    /\ obs.last.prev.cart[1] = obs.last.x
    /\ obs.last.prev.cart[2] # obs.last.x

\* ---- C11: a call with a cart identity that new_cart never returned is
\* rejected without effect: add_to_cart and remove_from_cart return False,
\* place_order and get_cart return None, and occupancies, pools, carts and
\* both counters are as before the call.
UnknownCall ==
    /\ obs.last.ok /\ pc[obs.who] = "idle"
    /\ obs.last.op \in {"add_to_cart", "remove_from_cart", "place_order", "get_cart"}
    /\ obs.last.c \notin DOMAIN obs.last.pre.carts

C11_UnknownCartRejected ==
    UnknownCall =>
        /\ obs.last.op \in {"add_to_cart", "remove_from_cart"} => obs.last.ret = RetBool(FALSE)
        /\ obs.last.op \in {"place_order", "get_cart"} => obs.last.ret = RetNone
        /\ Snapshot = obs.last.pre

\* place_order with an unknown identity has returned while a cart holds a
\* reservation and a pool holds a unit
C11_Witness ==
    /\ UnknownCall
    /\ obs.last.op = "place_order"
    /\ \E c \in DOMAIN carts : carts[c] # <<>>
    /\ \E x \in Products : prod_queue[x] # <<>>

\* ---- C12: remove_from_cart(cart, X) on a known cart.  With a reservation
\* of X in the cart it returns True, deletes the first one in list order and
\* keeps the others in their order, and adds to X's pool exactly the entry
\* (occupancy of the owning producer at the call, that producer); the other
\* carts and pools are untouched.  Without one it returns False and changes
\* no cart and no pool.
KnownRemove ==
    Returned("remove_from_cart") /\ obs.last.c \in DOMAIN obs.last.pre.carts

C12_RemoveFirstReservation ==
    KnownRemove =>
        LET l == obs.last
            cart == l.pre.carts[l.c]
            hits == {i \in 1..Len(cart) : cart[i].product = l.x}
        IN  /\ hits = {} =>
                  /\ l.ret = RetBool(FALSE)
                  /\ carts = l.pre.carts
                  /\ prod_queue = l.pre.prod_queue
            /\ hits # {} =>
                  \E i \in hits :
                     /\ \A j \in hits : i <= j
                     /\ l.ret = RetBool(TRUE)
                     /\ DOMAIN carts = DOMAIN l.pre.carts
                     /\ Len(carts[l.c]) = Len(cart) - 1
                     /\ \A j \in 1..Len(carts[l.c]) :
                           carts[l.c][j] = cart[IF j < i THEN j ELSE j + 1]
                     /\ \A d \in DOMAIN carts \ {l.c} : carts[d] = l.pre.carts[d]
                     /\ PlusOne(l.pre.prod_queue[l.x],
                                <<l.pre.prod_q[cart[i].producer_id], cart[i].producer_id>>,
                                prod_queue[l.x])
                     /\ \A y \in Products \ {l.x} : prod_queue[y] = l.pre.prod_queue[y]

\* a removal from a cart that held two reservations of X from two
\* producers; the entry put back carries an occupancy that is not the one the
\* unit was published with
C12_Witness ==
    /\ KnownRemove /\ obs.last.ret = RetBool(TRUE)
    /\ LET cart == obs.last.pre.carts[obs.last.c]
       IN  /\ Len(cart) = 2
           /\ cart[1].product = obs.last.x /\ cart[2].product = obs.last.x
           /\ cart[1].producer_id # cart[2].producer_id
           /\ obs.last.pre.prod_q[cart[1].producer_id] > 0

\* ---- C15 (as stated): after a refused publish of producer P, every publish
\* of P is refused until a place_order of a cart with a unit of P has
\* returned, and the first publish of P after that return succeeds.
C15_ReleaseOnReturn ==
    [][\A t \in ProducerThreads :
          own[t] # NoId =>
             /\ bp.st[own[t]] = "released" => bp'.st[own[t]] # "refused"
             /\ bp.st[own[t]] \in {"refused", "releasing"}
                   => ~(pc[t] = "idle" /\ pc'[t] = "pub_inc")]_vars

\* ---- C15 (amended): after a refused publish of producer P, every publish
\* of P is refused as long as no place_order has released a unit of P, also
\* while P's units sit in carts; once a place_order has released one, which
\* it does before it returns, the next publish of P succeeds.
C15_ReleaseOnDecrement ==
    [][\A t \in ProducerThreads :
          own[t] # NoId =>
             /\ bp.st[own[t]] \in {"releasing", "released"} => bp'.st[own[t]] # "refused"
             /\ bp.st[own[t]] = "refused"
                   => ~(pc[t] = "idle" /\ pc'[t] = "pub_inc")]_vars

\* one producer has published again after a refusal and a checkout; the
\* other has been refused and its unit sits in a cart
C15_Witness ==
    \E p, q \in DOMAIN prod_q :
        /\ bp.st[p] = "reopened"
        /\ bp.st[q] = "refused"
        /\ \E c \in DOMAIN carts : OwnedIn(carts[c], q) > 0

\* ---- C16: get_cart changes nothing, for a known or an unknown identity:
\* occupancies, pools, carts and both counters are as before the call; for a
\* known cart it returns the products of the cart's reservations in
\* reservation order.
C16_GetCartReadOnly ==
    Returned("get_cart") =>
        LET l == obs.last
        IN  /\ Snapshot = l.pre
            /\ l.c \in DOMAIN carts =>
                  /\ l.ret.tag = "list"
                  /\ Len(l.ret.val) = Len(carts[l.c])
                  /\ \A i \in 1..Len(carts[l.c]) : l.ret.val[i] = carts[l.c][i].product

\* get_cart has returned the two different products of a cart
C16_Witness ==
    /\ Returned("get_cart")
    /\ obs.last.c \in DOMAIN carts
    /\ Len(obs.last.ret.val) = 2
    /\ obs.last.ret.val[1] # obs.last.ret.val[2]

\* ---- C13: identities are allocated one by one in every interleaving.  The
\* producers that have registered hold the identities 0..k-1, one each; a
\* register_producer that returns hands out the counter's value and advances
\* the counter by one, and so does new_cart, so k calls return 0..k-1 each
\* once; the identity enters prod_q with occupancy 0 (carts with an empty
\* list), is new there, and every other entry keeps its value.
Registered == {t \in ProducerThreads : own[t] # NoId}

C13_SequentialIdentities ==
    /\ []({own[t] : t \in Registered} = 0..(Cardinality(Registered) - 1))
    /\ [][\A t \in Threads :
            /\ (pc[t] = "idle" /\ pc'[t] = "rp_inc") =>
                   /\ loc'[t].p \notin DOMAIN prod_q
                   /\ DOMAIN prod_q' = DOMAIN prod_q \cup {loc'[t].p}
                   /\ prod_q'[loc'[t].p] = 0
                   /\ \A p \in DOMAIN prod_q : prod_q'[p] = prod_q[p]
            /\ (pc[t] = "rp_inc" /\ pc'[t] = "idle") =>
                   /\ own'[t] = p_id
                   /\ p_id' = p_id + 1
                   /\ prod_q[own'[t]] = 0
            /\ (pc[t] = "idle" /\ pc'[t] = "nc_inc") =>
                   /\ loc'[t].c \notin DOMAIN carts
                   /\ DOMAIN carts' = DOMAIN carts \cup {loc'[t].c}
                   /\ carts'[loc'[t].c] = <<>>
                   /\ \A c \in DOMAIN carts : carts'[c] = carts[c]
            /\ (pc[t] = "nc_inc" /\ pc'[t] = "idle") =>
                   /\ own'[t] = c_id
                   /\ c_id' = c_id + 1
                   /\ carts[own'[t]] = <<>>]_vars

\* a second registration and a second cart creation are under way at the
\* same time, each after an earlier one that left something behind
C13_Witness ==
    /\ \E t \in ProducerThreads : pc[t] = "rp_inc" /\ loc[t].p = 1
    /\ \E u \in ConsumerThreads : pc[u] = "nc_inc" /\ loc[u].c = 1
    /\ prod_q[0] = QSize
    /\ carts[0] # <<>>

\* ---- C14: lock discipline.  In every reachable state a thread holds at
\* most one of the Marketplace's locks, a thread outside a call (returned or
\* ended by an exception) holds none, and no thread that holds a lock waits
\* for one: a thread that waits for a lock waits for another thread, which
\* waits for none and can take its next step.
HeldBy(t) ==
    (IF p_id_lock = t THEN 1 ELSE 0) + (IF c_id_lock = t THEN 1 ELSE 0)
    + Cardinality({p \in DOMAIN p_locks : p_locks[p] = t})
    + Cardinality({e \in Products \X LockObjects : lock_held[e[1]][e[2]] = t})

\* the holder of the lock that thread t cannot enter now, NoThread if t
\* waits for none
WaitsFor(t) ==
    IF pc[t] = "atc_acquire" THEN lock_held[loc[t].x][loc[t].lk]
    ELSE IF pc[t] = "po_loop" THEN p_locks[carts[loc[t].c][loc[t].i].producer_id]
    ELSE NoThread

\* the steps that continue a call
Continue(t) ==
    \/ RegisterInc(t) \/ PublishInc(t) \/ NewCartInc(t)
    \/ AddHasLock(t) \/ AddMakeLock(t) \/ AddGetLock(t) \/ AddRecheck(t) \/ AddPop(t)
    \/ RemovePush(t) \/ PlaceOrderNext(t)

C14_LockDiscipline ==
    \A t \in Threads :
        /\ HeldBy(t) <= 1
        /\ Idle(t) => HeldBy(t) = 0
        /\ HeldBy(t) = 1 => WaitsFor(t) = NoThread
        /\ WaitsFor(t) # NoThread =>
              /\ WaitsFor(t) # t
              /\ WaitsFor(WaitsFor(t)) = NoThread
              /\ ENABLED Continue(WaitsFor(t))

\* a consumer waits for the product lock that another consumer holds
C14_Witness ==
    \E t, u \in ConsumerThreads :
        /\ WaitsFor(t) = u
        /\ pc[u] = "atc_pop"
        /\ HeldBy(u) = 1

\* ---- C17: all add_to_cart calls for one product use one lock: two threads
\* that have read the product's lock hold the same lock object, and no two
\* threads are inside the locked section for the same product.
C17_OneLockPerProduct ==
    \A t, u \in ConsumerThreads :
        (t # u /\ loc[t].x = loc[u].x) =>
            /\ (pc[t] \in {"atc_acquire", "atc_pop"} /\ pc[u] \in {"atc_acquire", "atc_pop"})
                  => loc[t].lk = loc[u].lk
            /\ ~(pc[t] = "atc_pop" /\ pc[u] = "atc_pop")

\* ---- C18: add_to_cart and remove_from_cart change no occupancy, whatever
\* they return; an occupancy changes only by one, upwards in the publish of
\* its producer and downwards in a place_order.
MovesUnit(t) ==
    \/ pc[t] \in {"atc_haslock", "atc_mklock", "atc_getlock", "atc_acquire", "atc_pop",
                  "rm_push"} /\ pc'[t] # pc[t]
    \/ pc[t] = "idle" /\ pc'[t] \in {"atc_haslock", "rm_push"}

C18_OccupancyFrame ==
    [][/\ (\E t \in Threads : MovesUnit(t)) => prod_q' = prod_q
       /\ \A p \in DOMAIN prod_q :
             prod_q'[p] # prod_q[p] =>
                \/ /\ prod_q'[p] = prod_q[p] + 1
                   /\ \E t \in ProducerThreads :
                         pc[t] = "pub_inc" /\ pc'[t] = "idle" /\ own[t] = p
                \/ /\ prod_q'[p] = prod_q[p] - 1
                   /\ \E t \in ConsumerThreads :
                         /\ pc[t] \in {"idle", "po_loop"} /\ pc'[t] \in {"idle", "po_loop"}
                         /\ own[t] \in DOMAIN carts
                         /\ \E i \in 1..Len(carts[own[t]]) :
                               carts[own[t]][i].producer_id = p]_vars

\* a producer at capacity whose unit is being taken out of a cart, with the
\* other producer's unit reserved in another cart
C18_Witness ==
    \E t \in ConsumerThreads :
        /\ pc[t] = "rm_push"
        /\ prod_q[loc[t].p] = QSize
        /\ \E c \in DOMAIN carts \ {loc[t].c} :
              carts[c] # <<>> /\ carts[c][1].producer_id # loc[t].p

\* ---- C19: whenever no call is in flight, each producer's occupancy is the
\* number of its units in the pools plus the number of its units reserved in
\* carts.
InPools(p) ==
    SumOver([x \in Products |-> PoolOwned(prod_queue[x], p)], Products)
InCarts(p) ==
    SumOver([c \in DOMAIN carts |-> OwnedIn(carts[c], p)], DOMAIN carts)

C19_OccupancyExact ==
    Quiescent => \A p \in DOMAIN prod_q : prod_q[p] = InPools(p) + InCarts(p)

\* no call in flight, one producer's unit reserved in a cart, the other's in
\* a pool, and a cart that has been emptied
C19_Witness ==
    /\ Quiescent
    /\ \E p, q \in DOMAIN prod_q : InCarts(p) = 1 /\ InPools(q) = 1 /\ p # q
    /\ \E c \in DOMAIN carts : carts[c] = <<>>

\* ---- C20: when Producer.run leaves a (product, quantity) pair, all(...)
\* having returned True, it has made exactly quantity successful publishes
\* of the product since it arrived at the pair.
C20_ExactlyQuantity ==
    work.on =>
        \A t \in ProducerThreads :
            work.at[t].n = ProdData[work.at[t].k].qty
                => work.at[t].done = ProdData[work.at[t].k].qty

====
